---- MODULE Spec2Model ----
(***************************************************************************)
(* Marathon-Simulation: the per-run pipeline of DataScience/ProcessData.py *)
(* (DataProcessor) and the drivers that feed it (API/Strava.py,            *)
(* RunRetriever.py, time_data.py).                                         *)
(*                                                                         *)
(* A table (pandas DataFrame) is a function from column name to a sequence *)
(* of cells, all of the same length.  A cell is a record [k, n, d]:        *)
(*   k = "num"  the rational n/d in lowest terms, d > 0 (a float64 cell,   *)
(*              taken in exact arithmetic)                                 *)
(*   k = "nan"  numpy NaN (pandas' missing marker)                         *)
(*   k = "none" Python None kept in an object column                       *)
(*   k = "bool" True (n = 1) / False (n = 0)                               *)
(*   k = "inf" / "ninf"  float +infinity / -infinity                       *)
(*   k = "absent"  a key the run context does not hold                     *)
(***************************************************************************)
EXTENDS Integers, Sequences, FiniteSets, TLC

----------------------------------------------------------------------------
(* Bounds of the model and program constants *)

MaxSamples == 3
MaxTime == 4
MaxRequests == 4
SecondsPerMinute == 60
WindowSize == 5
RestingHeartRate == 60

----------------------------------------------------------------------------
(* Cells and float arithmetic *)

Abs(x) == IF x < 0 THEN -x ELSE x

RECURSIVE Gcd(_, _)
Gcd(a, b) == IF b = 0 THEN a ELSE Gcd(b, a % b)

Num(n, d) ==
  LET s == IF d < 0 THEN -1 ELSE 1
      g == Gcd(Abs(n), Abs(d))
  IN [k |-> "num", n |-> (s * n) \div g, d |-> (s * d) \div g]

Whole(n) == [k |-> "num", n |-> n, d |-> 1]
NaN == [k |-> "nan", n |-> 0, d |-> 1]
None == [k |-> "none", n |-> 0, d |-> 1]
\* a key the run context does not hold
Absent == [k |-> "absent", n |-> 0, d |-> 1]
PosInf == [k |-> "inf", n |-> 1, d |-> 1]
NegInf == [k |-> "ninf", n |-> -1, d |-> 1]
True == [k |-> "bool", n |-> 1, d |-> 1]
False == [k |-> "bool", n |-> 0, d |-> 1]

IsNum(v) == v.k = "num"
IsMissing(v) == v.k \in {"nan", "none"}

\* a < b on finite cells
Less(a, b) == a.n * b.d < b.n * a.d

FAdd(a, b) ==
  IF IsNum(a) /\ IsNum(b) THEN Num(a.n * b.d + b.n * a.d, a.d * b.d) ELSE NaN

FSub(a, b) ==
  IF IsNum(a) /\ IsNum(b) THEN Num(a.n * b.d - b.n * a.d, a.d * b.d) ELSE NaN

FMul(a, b) ==
  IF IsNum(a) /\ IsNum(b) THEN Num(a.n * b.n, a.d * b.d) ELSE NaN

\* float division: x/0 is +inf or -inf by the sign of x, 0/0 and NaN/x are NaN
FDiv(a, b) ==
  IF ~(IsNum(a) /\ IsNum(b)) THEN NaN
  ELSE IF b.n # 0 THEN Num(a.n * b.d, a.d * b.n)
  ELSE IF a.n > 0 THEN PosInf
  ELSE IF a.n < 0 THEN NegInf
  ELSE NaN

----------------------------------------------------------------------------
(* Columns *)

SeqOf(n, v) == [i \in 1..n |-> v]

RawChannels ==
  {"time", "heartrate", "distance", "cadence", "altitude", "velocity",
   "grade", "moving", "latitude", "longitude"}

\* pandas builds a float64 column from a list holding numbers and None (None
\* becomes NaN); a list with no number stays an object or bool column
ToColumn(lst) ==
  IF \E i \in 1..Len(lst) : IsNum(lst[i])
  THEN [i \in 1..Len(lst) |-> IF lst[i].k = "none" THEN NaN ELSE lst[i]]
  ELSE lst

\* select_dtypes(include=[np.number])
IsNumericColumn(col) ==
  /\ \E i \in 1..Len(col) : IsNum(col[i])
  /\ \A i \in 1..Len(col) : col[i].k \in {"num", "nan", "inf", "ninf"}

NRows(df) == Len(df[CHOOSE c \in DOMAIN df : TRUE])

\* the cell of the Strava latlng stream: a [lat, lng] pair of whole degrees
Point(lat, lng) == [k |-> "point", n |-> lat, d |-> lng]

----------------------------------------------------------------------------
(* API/Strava.py: StravaDataRetriever *)

_pad_list(lst, target_length) ==
  lst \o SeqOf(target_length - Len(lst), None)

\* the latitude list and the longitude list of a latlng list
_extract_coordinates(latlng_data) ==
  [lat |-> [i \in 1..Len(latlng_data) |->
              IF latlng_data[i].k = "point"
              THEN Whole(latlng_data[i].n) ELSE None],
   lng |-> [i \in 1..Len(latlng_data) |->
              IF latlng_data[i].k = "point"
              THEN Whole(latlng_data[i].d) ELSE None]]

\* parse_to_csv without its empty-time check
parse_to_csv_unguarded(strm) ==
  LET max_len == Len(strm["time"])
      stream_data == [c \in DOMAIN strm |-> _pad_list(strm[c], max_len)]
      coords == _extract_coordinates(stream_data["latlng"])
  IN [c \in RawChannels |->
        IF c = "latitude" THEN coords.lat
        ELSE IF c = "longitude" THEN coords.lng
        ELSE stream_data[c]]

\* what parse_to_csv returns for the streams the service sent: False for an
\* empty time stream, else the padded channel lists
parse_to_csv(strm) ==
  IF Len(strm["time"]) = 0 THEN False
  ELSE
    LET max_len == Len(strm["time"])
        stream_data == [c \in DOMAIN strm |-> _pad_list(strm[c], max_len)]
        coords == _extract_coordinates(stream_data["latlng"])
    IN [c \in RawChannels |->
          IF c = "latitude" THEN coords.lat
          ELSE IF c = "longitude" THEN coords.lng
          ELSE stream_data[c]]

----------------------------------------------------------------------------
(* DataScience/ProcessData.py: DataProcessor *)

RenamedColumn(c) ==
  CASE c = "time" -> "time_datetime"
    [] c = "heartrate" -> "heartrate_bpm"
    [] c = "cadence" -> "cadence_rpm"
    [] c = "distance" -> "distance_m"
    [] c = "altitude" -> "altitude_m"
    [] c = "velocity" -> "velocity_mps"
    [] c = "grade" -> "grade_percent"
    [] c = "moving" -> "moving"
    [] c = "latitude" -> "latitude_degree"
    [] c = "longitude" -> "longitude_degree"

RawOf(col) == CHOOSE c \in RawChannels : RenamedColumn(c) = col

\* pd.DataFrame(csv_data) followed by rename_columns
rename_columns(data) ==
  [col \in {RenamedColumn(c) : c \in RawChannels} |-> ToColumn(data[RawOf(col)])]

\* pd.DataFrame raises ValueError for a non-dict argument (False) and for
\* lists of unequal length
ConstructorRaises(data) ==
  \/ data = False
  \/ \E c1, c2 \in DOMAIN data : Len(data[c1]) # Len(data[c2])

\* pd.to_datetime(time, unit='s', origin=start): seconds since the epoch of
\* the model
to_datetime(col, origin) == [i \in 1..Len(col) |-> FAdd(Whole(origin), col[i])]

ColMin(col) == CHOOSE v \in {col[i] : i \in 1..Len(col)} :
                 \A j \in 1..Len(col) : ~Less(col[j], v)
ColMax(col) == CHOOSE v \in {col[i] : i \in 1..Len(col)} :
                 \A j \in 1..Len(col) : ~Less(v, col[j])

\* a range that stops one second short of `end`
date_range_exclusive(start_time, end_time) ==
  LET span == FSub(end_time, start_time)
  IN [i \in 1..(span.n \div span.d) |-> FAdd(start_time, Whole(i - 1))]

\* pd.date_range(start, end, freq='1s')
date_range(start_time, end_time) ==
  LET span == FSub(end_time, start_time)
  IN [i \in 1..((span.n \div span.d) + 1) |-> FAdd(start_time, Whole(i - 1))]

HasDuplicates(col) == \E i, j \in 1..Len(col) : i # j /\ col[i] = col[j]

\* rows taken by position instead of by label
reindex_by_position(df, index, new_index) ==
  [c \in DOMAIN df |->
     [i \in 1..Len(new_index) |-> IF i <= Len(index) THEN df[c][i] ELSE NaN]]

\* DataFrame.reindex(new_index): the row of each label found in the old
\* index, NaN in every column for a label that is not
reindex(df, index, new_index) ==
  [c \in DOMAIN df |->
     [i \in 1..Len(new_index) |->
        IF \E j \in 1..Len(index) : index[j] = new_index[i]
        THEN df[c][CHOOSE j \in 1..Len(index) : index[j] = new_index[i]]
        ELSE NaN]]

\* forward fill: every NaN takes the last valid cell before it
interpolate_pad(col) ==
  [i \in 1..Len(col) |->
     IF IsNum(col[i]) THEN col[i]
     ELSE
       LET before == {j \in 1..(i - 1) : IsNum(col[j])}
       IN IF before = {} THEN NaN
          ELSE col[CHOOSE j \in before : \A h \in before : h <= j]]

\* Series.interpolate(method="linear") with pandas' defaults
\* (limit_direction="forward", limit_area=None): rows are equally spaced; a
\* NaN between two valid cells lies on the line through them, a NaN after the
\* last valid cell takes that cell's value, a NaN before the first stays NaN
interpolate(col) ==
  [i \in 1..Len(col) |->
     IF IsNum(col[i]) THEN col[i]
     ELSE
       LET before == {j \in 1..(i - 1) : IsNum(col[j])}
           after == {j \in (i + 1)..Len(col) : IsNum(col[j])}
       IN IF before = {} THEN NaN
          ELSE
            LET p == CHOOSE j \in before : \A h \in before : h <= j
            IN IF after = {} THEN col[p]
               ELSE
                 LET q == CHOOSE j \in after : \A h \in after : j <= h
                     slope == FDiv(FSub(col[q], col[p]), Whole(q - p))
                 IN FAdd(FMul(slope, Whole(i - p)), col[p])]

\* the table interpolate_missing_data leaves in self.csv_data
interpolate_missing_data(df, json) ==
  LET marked == [c \in DOMAIN df \cup {"is_original"} |->
                   IF c = "is_original" THEN SeqOf(NRows(df), True) ELSE df[c]]
      index == to_datetime(df["time_datetime"], json.start_date_local)
      body == [c \in DOMAIN marked \ {"time_datetime"} |-> marked[c]]
      complete_time_range == date_range(ColMin(index), ColMax(index))
      filled == reindex(body, index, complete_time_range)
      numeric_columns == {c \in DOMAIN filled : IsNumericColumn(filled[c])}
  IN [c \in DOMAIN filled \cup {"time_datetime"} |->
        IF c = "time_datetime" THEN complete_time_range
        ELSE IF c \in numeric_columns THEN interpolate(filled[c])
        ELSE filled[c]]

\* date_range raises ValueError on an empty index (NaT bounds), reindex on an
\* index with duplicate labels
InterpolateRaises(df, json) ==
  \/ NRows(df) = 0
  \/ HasDuplicates(to_datetime(df["time_datetime"], json.start_date_local))

\* the mean of all the non-NaN cells up to the row (an expanding window)
rolling_mean_expanding(col, window_size) ==
  [i \in 1..Len(col) |->
     LET valid == {j \in 1..i : IsNum(col[j])}
         Sum[j \in 0..i] ==
           IF j = 0 THEN Whole(0)
           ELSE IF j \in valid THEN FAdd(Sum[j - 1], col[j]) ELSE Sum[j - 1]
     IN IF valid = {} THEN NaN ELSE FDiv(Sum[i], Whole(Cardinality(valid)))]

\* Series.rolling(window, min_periods=1).mean(): the mean of the non-NaN cells
\* among the last `window` rows up to the row, NaN when there is none
rolling_mean(col, window_size) ==
  [i \in 1..Len(col) |->
     LET lo == IF i - window_size + 1 < 1 THEN 1 ELSE i - window_size + 1
         valid == {j \in lo..i : IsNum(col[j])}
         Sum[j \in (lo - 1)..i] ==
           IF j < lo THEN Whole(0)
           ELSE IF j \in valid THEN FAdd(Sum[j - 1], col[j]) ELSE Sum[j - 1]
     IN IF valid = {} THEN NaN ELSE FDiv(Sum[i], Whole(Cardinality(valid)))]

AddColumns(df, new) ==
  [c \in DOMAIN df \cup DOMAIN new |-> IF c \in DOMAIN new THEN new[c] ELSE df[c]]

DropColumns(df, cols) == [c \in DOMAIN df \ cols |-> df[c]]

SmoothName(feature) ==
  CASE feature = "heartrate_bps" -> "smooth_heartrate_bps"
    [] feature = "velocity_mps" -> "smooth_velocity_mps"
    [] feature = "cadence_rps" -> "smooth_cadence_rps"
    [] feature = "altitude_m" -> "smooth_altitude_m"
    [] feature = "grade_percent" -> "smooth_grade_percent"
    [] feature = "headwind_mps" -> "smooth_headwind_mps"
    [] feature = "crosswind_mps" -> "smooth_crosswind_mps"

\* smoothing that takes the smoothed column for its source once it exists
smooth_data_accumulating(df, features, window_size) ==
  AddColumns(df, [s \in {SmoothName(f) : f \in features} |->
     rolling_mean(IF s \in DOMAIN df THEN df[s]
                  ELSE df[CHOOSE f \in features : SmoothName(f) = s],
                  window_size)])

smooth_data(df, features, window_size) ==
  AddColumns(df, [s \in {SmoothName(f) : f \in features} |->
     rolling_mean(df[CHOOSE f \in features : SmoothName(f) = s], window_size)])

\* arithmetic and rolling on an object column (a channel the service did not
\* send: all None) raise; so does a column that is not in the table (KeyError)
IsObjectColumn(df, c) == \E i \in 1..Len(df[c]) : df[c][i].k = "none"

SmoothRaises(df, features) ==
  \E f \in features : f \notin DOMAIN df \/ IsObjectColumn(df, f)

ColDiv(col, x) == [i \in 1..Len(col) |-> FDiv(col[i], x)]

_minute_to_second(df) ==
  AddColumns(df,
    [heartrate_bps |-> ColDiv(df["heartrate_bpm"], Whole(SecondsPerMinute)),
     cadence_rps |-> ColDiv(df["cadence_rpm"], Whole(SecondsPerMinute))])

MinuteToSecondRaises(df) ==
  IsObjectColumn(df, "heartrate_bpm") \/ IsObjectColumn(df, "cadence_rpm")

\* Series.diff(): the row minus the row before it, NaN at the first row
diff(col) ==
  [i \in 1..Len(col) |-> IF i = 1 THEN NaN ELSE FSub(col[i], col[i - 1])]

\* sin and cos of a whole number of degrees that is a multiple of 90, the only
\* angles the model's coordinates and wind directions produce
SinDeg(a) ==
  CASE a % 360 = 0 -> 0 [] a % 360 = 90 -> 1
    [] a % 360 = 180 -> 0 [] a % 360 = 270 -> -1

CosDeg(a) ==
  CASE a % 360 = 0 -> 1 [] a % 360 = 90 -> 0
    [] a % 360 = 180 -> -1 [] a % 360 = 270 -> 0

\* math.degrees(math.atan2(x, y)) for x, y in {-1, 0, 1}
Atan2Deg(x, y) ==
  CASE x = 0 /\ y >= 0 -> 0
    [] x = 0 /\ y < 0 -> 180
    [] x > 0 /\ y = 0 -> 90
    [] x < 0 /\ y = 0 -> -90
    [] x > 0 /\ y > 0 -> 45
    [] x > 0 /\ y < 0 -> 135
    [] x < 0 /\ y > 0 -> -45
    [] x < 0 /\ y < 0 -> -135

\* the remainder with the sign of the dividend (math.fmod)
FModTruncated(a, m) ==
  IF ~IsNum(a) THEN NaN
  ELSE IF a.n >= 0 THEN FSub(a, Whole(m * ((a.n \div a.d) \div m)))
  ELSE FAdd(a, Whole(m * (((-a.n) \div a.d) \div m)))

\* a % m for float cells, m > 0: the result has the sign of m
FMod(a, m) ==
  IF IsNum(a) THEN FSub(a, Whole(m * ((a.n \div a.d) \div m))) ELSE NaN

\* the raw atan2 angle, in (-180, 180]
NoNormalize(deg) == deg

Normalize360(deg) == (deg + 360) % 360

\* a bearing that is left missing between two equal points
_calculate_bearing_or_missing(lat1, lon1, lat2, lon2) ==
  IF ~(IsNum(lat1) /\ IsNum(lon1) /\ IsNum(lat2) /\ IsNum(lon2)) THEN NaN
  ELSE IF lat1 = lat2 /\ lon1 = lon2 THEN NaN
  ELSE
    LET delta_lon == lon2.n - lon1.n
        x == SinDeg(delta_lon) * CosDeg(lat2.n)
        y == CosDeg(lat1.n) * SinDeg(lat2.n)
             - SinDeg(lat1.n) * CosDeg(lat2.n) * CosDeg(delta_lon)
    IN Whole(Normalize360(Atan2Deg(x, y)))

\* a NaN coordinate makes every intermediate value, and the bearing, NaN
_calculate_bearing(lat1, lon1, lat2, lon2) ==
  IF ~(IsNum(lat1) /\ IsNum(lon1) /\ IsNum(lat2) /\ IsNum(lon2)) THEN NaN
  ELSE
    LET delta_lon == lon2.n - lon1.n
        x == SinDeg(delta_lon) * CosDeg(lat2.n)
        y == CosDeg(lat1.n) * SinDeg(lat2.n)
             - SinDeg(lat1.n) * CosDeg(lat2.n) * CosDeg(delta_lon)
    IN Whole(Normalize360(Atan2Deg(x, y)))

lat == "latitude_degree"
lon == "longitude_degree"
alt == "smooth_altitude_m"
hr == "smooth_heartrate_bps"
vel == "smooth_velocity_mps"
cad == "smooth_cadence_rps"

\* the deltas, with the row that has none removed from the table
WithDeltasDropna(df) ==
  [c \in DOMAIN df \cup {"delta_latitude", "delta_longitude"} |->
     Tail(IF c = "delta_latitude" THEN diff(df[lat])
          ELSE IF c = "delta_longitude" THEN diff(df[lon])
          ELSE df[c])]

\* lines 135-136
WithDeltas(df) ==
  AddColumns(df, [delta_latitude |-> diff(df[lat]),
                  delta_longitude |-> diff(df[lon])])

\* lines 137-141: rows 2.. get a bearing, the first row is left NaN
WithBearing(df) ==
  AddColumns(df, [athletedir_degree |->
    [i \in 1..NRows(df) |->
       IF i = 1 THEN NaN
       ELSE _calculate_bearing(df[lat][i - 1], df[lon][i - 1],
                               df[lat][i], df[lon][i])]])

\* np.cos(np.radians(.)) and np.sin(np.radians(.)) of a cell
CosRadians(degrees) == IF IsNum(degrees) THEN Whole(CosDeg(degrees.n)) ELSE NaN
\* the cosine taken for the sine
SinRadiansAsCos(degrees) ==
  IF IsNum(degrees) THEN Whole(CosDeg(degrees.n)) ELSE NaN

SinRadians(degrees) == IF IsNum(degrees) THEN Whole(SinDeg(degrees.n)) ELSE NaN

\* lines 144-153
WithWind(df, json) ==
  LET n == NRows(df)
      winddir_degree == Whole(json.weather.winddir)
      windspeed_mps == FDiv(FMul(Whole(json.weather.windspeed), Whole(1000)),
                            Whole(3600))
      relative == [i \in 1..n |->
                     FMod(FSub(winddir_degree, df["athletedir_degree"][i]), 360)]
  IN DropColumns(
       AddColumns(df,
         [relative_winddir_degree |-> relative,
          headwind_mps |->
            [i \in 1..n |-> FMul(windspeed_mps, CosRadians(relative[i]))],
          crosswind_mps |->
            [i \in 1..n |-> FMul(windspeed_mps, SinRadians(relative[i]))]]),
       {"delta_latitude", "delta_longitude", "athletedir_degree"})

\* no substitution at all
KeepInfinity(v) == v

\* every value that is not a finite number replaced with 0
ReplaceNotFinite(v) == IF IsNum(v) THEN v ELSE Whole(0)

\* line 158: the rows the comparison with np.inf selects are set to 0
ReplaceInfinity(v) == IF v = PosInf THEN Whole(0) ELSE v

\* the stride and altitude section put off until the pace section is through
WithStrideDeferred(df) == df

\* lines 156-161
WithStride(df) ==
  AddColumns(df,
    [stride_length_m |->
       [i \in 1..NRows(df) |-> ReplaceInfinity(FDiv(df[vel][i], df[cad][i]))],
     diff_altitude_mps |-> diff(df[alt])])

\* the score clamped to [0, 1]
pace_efficiency_clamped(velocity, heartrate, json, resting_heart_rate) ==
  LET score ==
        FMul(FDiv(velocity, json.max_speed),
             FSub(Whole(1),
                  FDiv(FSub(heartrate,
                            FDiv(Whole(resting_heart_rate),
                                 Whole(SecondsPerMinute))),
                       FDiv(json.max_heartrate, Whole(SecondsPerMinute)))))
  IN IF ~IsNum(score) THEN score
     ELSE IF Less(score, Whole(0)) THEN Whole(0)
     ELSE IF Less(Whole(1), score) THEN Whole(1)
     ELSE score

pace_efficiency(velocity, heartrate, json, resting_heart_rate) ==
  FMul(FDiv(velocity, json.max_speed),
       FSub(Whole(1),
            FDiv(FSub(heartrate,
                      FDiv(Whole(resting_heart_rate), Whole(SecondsPerMinute))),
                 FDiv(json.max_heartrate, Whole(SecondsPerMinute)))))

\* lines 166-174
WithPace(df, json, resting_heart_rate) ==
  LET n == NRows(df)
      smooth_pe == [i \in 1..n |->
        pace_efficiency(df[vel][i], df[hr][i], json, resting_heart_rate)]
  IN AddColumns(df,
       [smooth_pace_efficiency |-> smooth_pe,
        pace_efficiency |-> [i \in 1..n |->
          pace_efficiency(df["velocity_mps"][i], df["heartrate_bps"][i], json,
                          resting_heart_rate)],
        diff_pace_efficiency |-> diff(smooth_pe),
        diff_heartrate_bps2 |-> diff(df[hr]),
        diff_velocity_mps2 |-> diff(df[vel])])

\* lines 144-145, self.json_data["weather"]["winddir"]: a context without
\* the key raises KeyError, a null observation TypeError
WeatherRaises(json) ==
  CASE json.weather.k = "absent" -> "KeyError"
    [] json.weather.k = "none" -> "TypeError"
    [] OTHER -> "none"

\* a pace section that goes on without max_speed or max_heartrate
PaceNeverRaises(json) == "none"

\* line 166, left to right: Series / json["max_speed"], then
\* json["max_heartrate"] / 60
PaceRaises(json) ==
  CASE json.max_speed.k = "absent" -> "KeyError"
    [] json.max_speed.k = "none" -> "TypeError"
    [] json.max_heartrate.k = "absent" -> "KeyError"
    [] json.max_heartrate.k = "none" -> "TypeError"
    [] OTHER -> "none"

\* feature_engineering runs top to bottom and stops at the first statement
\* that raises; what it has assigned by then stays in self.csv_data
feature_engineering(df, json, resting_heart_rate) ==
  IF NRows(df) >= 2 /\ IsObjectColumn(df, lat)
  THEN [table |-> df, raised |-> "TypeError"]
  ELSE IF NRows(df) >= 2 /\ IsObjectColumn(df, lon)
  THEN [table |-> AddColumns(df, [delta_latitude |-> diff(df[lat])]),
        raised |-> "TypeError"]
  ELSE IF NRows(df) < 2
  THEN [table |-> WithDeltas(df), raised |-> "KeyError"]
  ELSE IF WeatherRaises(json) # "none"
  THEN [table |-> WithBearing(WithDeltas(df)), raised |-> WeatherRaises(json)]
  ELSE
    LET wind == WithWind(WithBearing(WithDeltas(df)), json)
    IN IF {vel, cad, alt, hr} \ DOMAIN df # {}
       THEN [table |-> wind, raised |-> "KeyError"]
       ELSE IF PaceRaises(json) # "none"
       THEN [table |-> WithStride(wind), raised |-> PaceRaises(json)]
       ELSE [table |-> WithPace(WithStride(wind), json, resting_heart_rate),
             raised |-> "none"]

----------------------------------------------------------------------------
(* State *)

VARIABLES
  driver,     \* the entry point that handles the run: "process" (a caller of
              \* DataProcessor.process), "main" (RunRetriever.main) or
              \* "time_data" (the time_data.py script)
  pc,         \* the statement the driver is at
  streams,    \* the streams the service returns for the run
  json_data,  \* the run context (parse_to_json plus the weather observation)
  csv_data,   \* parse_to_csv's result, then DataProcessor.csv_data
  err,        \* the exception that ended the run, "none" while there is none
  printed,    \* the diagnostics printed for the run
  calls,      \* the DataProcessor methods invoked so far, in order
  enriched,   \* the table the first derivation ended with, once the caller
              \* runs the derive stages again; None until then
  files,      \* the files written for the run
  session,    \* StravaDataRetriever.session: "None" or "OAuth2Session"
  token,      \* the session holds an access token
  sent,       \* the requests sent to the service so far, in order
  thrown      \* the exception the latest retriever call raised, or "none"

\* the state of the StravaDataRetriever
retriever == <<session, token, sent, thrown>>

\* the state of the run in hand
run == <<driver, pc, streams, json_data, csv_data, err, printed, calls,
         enriched, files>>

vars == <<run, retriever>>

----------------------------------------------------------------------------
(* Inputs *)

Times == 0..MaxTime

\* non-decreasing lists of whole-second offsets
TimeStreams ==
  UNION {{t \in [1..n -> Times] : \A i \in 1..(n - 1) : t[i] <= t[i + 1]}
         : n \in 0..MaxSamples}

Contiguous(n) == [i \in 1..n |-> Whole(i - 1)]

Cells(S) == {Whole(x) : x \in S}

Lists(n, S) == [1..n -> S]

DefaultStreams(time) ==
  LET n == Len(time)
  IN [time |-> time,
      heartrate |-> SeqOf(n, Whole(120)),
      distance |-> SeqOf(n, Whole(0)),
      cadence |-> SeqOf(n, Whole(180)),
      altitude |-> SeqOf(n, Whole(10)),
      velocity |-> SeqOf(n, Whole(3)),
      grade |-> SeqOf(n, Whole(0)),
      moving |-> SeqOf(n, True),
      latlng |-> SeqOf(n, Point(0, 0))]

\* sparse runs: gaps in the time stream, samples missing from a channel
SparseStreams ==
  {[DefaultStreams([i \in 1..Len(t) |-> Whole(t[i])]) EXCEPT !.velocity = v] :
     <<t, v>> \in UNION {{<<t, v>> : v \in Lists(Len(t), Cells({2, 4}) \cup {None})}
                         : t \in TimeStreams}}

\* runs sampled every second, with every velocity and cadence
StrideStreams ==
  UNION {{[DefaultStreams(Contiguous(n)) EXCEPT !.velocity = vc[1], !.cadence = vc[2]] :
            vc \in Lists(n, Cells({-5, 0, 5})) \X Lists(n, Cells({0, 180}))}
         : n \in 1..MaxSamples}

Points == {Point(0, 0), Point(0, 90), Point(0, -90), Point(90, 0), Point(-90, 0)}

\* runs sampled every second whose latlng stream may stop early
RouteStreams ==
  UNION {UNION {{[DefaultStreams(Contiguous(n)) EXCEPT !.latlng = p] :
                   p \in Lists(m, Points)} : m \in 0..n}
         : n \in 1..MaxSamples}

\* runs whose last sample lies more than one smoothing window after the
\* first, with samples missing from the velocity channel
LongTimes ==
  UNION {{t \in [1..n -> 0..(WindowSize + 1)] :
            /\ t[1] = 0
            /\ t[n] = WindowSize + 1
            /\ \A i \in 1..(n - 1) : t[i] < t[i + 1]}
         : n \in 2..MaxSamples}

LongStreams ==
  {[DefaultStreams([i \in 1..Len(t) |-> Whole(t[i])]) EXCEPT !.velocity = v] :
     <<t, v>> \in UNION {{<<t, v>> : v \in Lists(Len(t), Cells({2, 4}) \cup {None})}
                         : t \in LongTimes}}

\* runs sampled every second on the spot, every channel at its default
SteadyStreams == {DefaultStreams(Contiguous(n)) : n \in 1..MaxSamples}

\* runs for which the service sends one channel a sample longer than time
OverlongStreams ==
  UNION {{[DefaultStreams(Contiguous(n)) EXCEPT ![c] = SeqOf(n + 1, @[1])] :
            c \in {"velocity", "latlng"}}
         : n \in 1..MaxSamples}

\* float elapsed times: samples on the half seconds of 0..MaxTime / 2
HalfSeconds == {Num(h, 2) : h \in 0..MaxTime}

\* runs whose time stream holds sub-second samples
SubSecondStreams ==
  UNION {{[DefaultStreams(t) EXCEPT !.velocity = v] :
            <<t, v>> \in {t \in [1..n -> HalfSeconds] :
                            \A i \in 1..(n - 1) : Less(t[i], t[i + 1])}
                         \X Lists(n, Cells({2, 4}))}
         : n \in 1..MaxSamples}

PlainStreams ==
  {DefaultStreams([i \in 1..Len(t) |-> Whole(t[i])]) : t \in TimeStreams}

DefaultJson ==
  [start_date_local |-> 1000,
   weather |-> [k |-> "obs", winddir |-> 90, windspeed |-> 36],
   max_speed |-> Whole(5),
   max_heartrate |-> Whole(180)]

Observation(winddir, windspeed) ==
  [k |-> "obs", winddir |-> winddir, windspeed |-> windspeed]

\* a wind from the east, a wind from the south and a lighter wind
WindObservations ==
  {Observation(90, 36), Observation(180, 36), Observation(90, 18)}

\* a null observation, and a context without the weather key
NoObservation == {[Observation(0, 0) EXCEPT !.k = x] : x \in {"none", "absent"}}

WindContexts == {[DefaultJson EXCEPT !.weather = w] : w \in WindObservations}

\* parse_to_json copies max_speed and max_heartrate with run.get: None when
\* the activity has none; a caller of DataProcessor may pass any dict
Contexts ==
  {[DefaultJson EXCEPT !.weather = w, !.max_speed = s, !.max_heartrate = h] :
     <<w, s, h>> \in ({DefaultJson.weather} \cup NoObservation)
                      \X {Whole(5), None, Absent} \X {Whole(180), None, Absent}}

Init ==
  /\ \/ /\ driver = "process"
        /\ \/ /\ streams \in SparseStreams \cup StrideStreams \cup LongStreams
                              \cup OverlongStreams \cup SubSecondStreams
              /\ json_data = DefaultJson
           \/ /\ streams \in RouteStreams
              /\ json_data \in WindContexts
           \/ /\ streams \in SteadyStreams
              /\ json_data \in Contexts
     \/ /\ driver \in {"main", "time_data"}
        /\ streams \in PlainStreams
        /\ json_data = DefaultJson
  /\ pc = IF driver = "time_data" THEN "td_write_json" ELSE "parse_to_csv"
  /\ csv_data = None
  /\ err = "none"
  /\ printed = {}
  /\ calls = <<>>
  /\ enriched = None
  /\ files = {}
  /\ session = IF driver = "process" THEN "None" ELSE "OAuth2Session"
  /\ token = (driver # "process")
  /\ sent = <<>>
  /\ thrown = "none"

----------------------------------------------------------------------------
(* Operations *)

Raise(exception) ==
  /\ err' = exception
  /\ pc' = "raised"

\* StravaDataRetriever.parse_to_csv (RunRetriever.main line 99)
ParseToCsv ==
  /\ pc = "parse_to_csv"
  /\ csv_data' = parse_to_csv(streams)
  /\ printed' = IF Len(streams["time"]) = 0
                THEN printed \cup {"no_time_stream"} ELSE printed
  /\ pc' = "construct"
  /\ UNCHANGED retriever
  /\ UNCHANGED <<driver, enriched, streams, json_data, err, calls, files>>

\* DataProcessor.__init__ (RunRetriever.main line 108)
Construct ==
  /\ pc = "construct"
  /\ calls' = Append(calls, "__init__")
  /\ IF ConstructorRaises(csv_data)
     THEN Raise("ValueError") /\ UNCHANGED csv_data
     ELSE /\ csv_data' = rename_columns(csv_data)
          /\ pc' = "interpolate"
          /\ UNCHANGED err
  /\ UNCHANGED retriever
  /\ UNCHANGED <<driver, enriched, streams, json_data, printed, files>>

\* DataProcessor.interpolate_missing_data
InterpolateMissingData ==
  /\ pc = "interpolate"
  /\ calls' = Append(calls, "interpolate_missing_data")
  /\ IF InterpolateRaises(csv_data, json_data)
     THEN Raise("ValueError") /\ UNCHANGED csv_data
     ELSE /\ csv_data' = interpolate_missing_data(csv_data, json_data)
          /\ pc' = IF driver = "process" THEN "minute_to_second"
                   ELSE "feature_engineering"
          /\ UNCHANGED err
  /\ UNCHANGED retriever
  /\ UNCHANGED <<driver, enriched, streams, json_data, printed, files>>

\* DataProcessor._minute_to_second (process line 186)
MinuteToSecond ==
  /\ pc = "minute_to_second"
  /\ calls' = Append(calls, "_minute_to_second")
  /\ IF MinuteToSecondRaises(csv_data)
     THEN Raise("TypeError") /\ UNCHANGED csv_data
     ELSE /\ csv_data' = _minute_to_second(csv_data)
          /\ pc' = "smooth_1"
          /\ UNCHANGED err
  /\ UNCHANGED retriever
  /\ UNCHANGED <<driver, enriched, streams, json_data, printed, files>>

Pass1Features ==
  {"heartrate_bps", "velocity_mps", "cadence_rps", "altitude_m", "grade_percent"}

Pass2Features == {"headwind_mps", "crosswind_mps"}

\* DataProcessor.smooth_data, first call (process lines 188-194)
SmoothPass1 ==
  /\ pc = "smooth_1"
  /\ calls' = Append(calls, "smooth_data")
  /\ IF SmoothRaises(csv_data, Pass1Features)
     THEN Raise("DataError") /\ UNCHANGED csv_data
     ELSE /\ csv_data' = smooth_data(csv_data, Pass1Features, WindowSize)
          /\ pc' = "feature_engineering"
          /\ UNCHANGED err
  /\ UNCHANGED retriever
  /\ UNCHANGED <<driver, enriched, streams, json_data, printed, files>>

\* DataProcessor.feature_engineering
FeatureEngineering ==
  /\ pc = "feature_engineering"
  /\ calls' = Append(calls, "feature_engineering")
  /\ LET r == feature_engineering(csv_data, json_data, RestingHeartRate)
     IN /\ csv_data' = r.table
        /\ IF r.raised # "none"
           THEN Raise(r.raised)
           ELSE /\ pc' = IF driver = "process" THEN "smooth_2" ELSE "save_to_json"
                /\ UNCHANGED err
  /\ UNCHANGED retriever
  /\ UNCHANGED <<driver, enriched, streams, json_data, printed, files>>

\* DataProcessor.smooth_data, second call (process lines 200-203)
SmoothPass2 ==
  /\ pc = "smooth_2"
  /\ calls' = Append(calls, "smooth_data")
  /\ csv_data' = smooth_data(csv_data, Pass2Features, WindowSize)
  /\ pc' = "save_to_json"
  /\ UNCHANGED retriever
  /\ UNCHANGED <<driver, enriched, streams, json_data, err, printed, files>>

\* a caller that runs the derive stages of process (lines 186-203) once more
\* on the table they produced
DeriveAgain ==
  /\ pc = "save_to_json"
  /\ driver = "process"
  /\ enriched = None
  /\ enriched' = csv_data
  /\ pc' = "minute_to_second"
  /\ UNCHANGED retriever
  /\ UNCHANGED <<driver, streams, json_data, csv_data, err, printed, calls,
                 files>>

\* DataProcessor.save_to_json
SaveToJson ==
  /\ pc = "save_to_json"
  /\ calls' = Append(calls, "save_to_json")
  /\ files' = files \cup {"overall.json"}
  /\ pc' = "save_to_csv"
  /\ UNCHANGED retriever
  /\ UNCHANGED <<driver, enriched, streams, json_data, csv_data, err, printed>>

\* DataProcessor.save_to_csv
SaveToCsv ==
  /\ pc = "save_to_csv"
  /\ calls' = Append(calls, "save_to_csv")
  /\ files' = files \cup {"streams.csv"}
  /\ pc' = "done"
  /\ UNCHANGED retriever
  /\ UNCHANGED <<driver, enriched, streams, json_data, csv_data, err, printed>>

\* time_data.py lines 65-72: the run's JSON file is written first
TimeDataWriteJson ==
  /\ pc = "td_write_json"
  /\ files' = files \cup {"run.json"}
  /\ pc' = "td_streams"
  /\ UNCHANGED retriever
  /\ UNCHANGED <<driver, enriched, streams, json_data, csv_data, err, printed,
                 calls>>

\* time_data.py lines 86-105: an empty time stream skips the run
TimeDataStreams ==
  /\ pc = "td_streams"
  /\ IF Len(streams["time"]) = 0
     THEN /\ printed' = printed \cup {"no_time_stream"}
          /\ pc' = "done"
     ELSE /\ printed' = printed
          /\ pc' = "td_write_csv"
  /\ UNCHANGED retriever
  /\ UNCHANGED <<driver, enriched, streams, json_data, csv_data, err, calls,
                 files>>

\* time_data.py lines 107-145: pad, split latlng, write the CSV file
TimeDataWriteCsv ==
  /\ pc = "td_write_csv"
  /\ csv_data' = parse_to_csv(streams)
  /\ files' = files \cup {"streams.csv"}
  /\ pc' = "done"
  /\ UNCHANGED retriever
  /\ UNCHANGED <<driver, enriched, streams, json_data, err, printed, calls>>

Next ==
  \/ ParseToCsv
  \/ Construct
  \/ InterpolateMissingData
  \/ MinuteToSecond
  \/ SmoothPass1
  \/ FeatureEngineering
  \/ SmoothPass2
  \/ DeriveAgain
  \/ SaveToJson
  \/ SaveToCsv
  \/ TimeDataWriteJson
  \/ TimeDataStreams
  \/ TimeDataWriteCsv

Spec == Init /\ [][Next]_vars

----------------------------------------------------------------------------
(* StravaDataRetriever: authentication and requests *)

\* a new retriever (lines 18-27), no run in hand
RetrieverInit ==
  /\ session = "None"
  /\ token = FALSE
  /\ sent = <<>>
  /\ thrown = "none"
  /\ driver = "main"
  /\ pc = "authenticate"
  /\ streams = DefaultStreams(<<>>)
  /\ json_data = DefaultJson
  /\ csv_data = None
  /\ err = "none"
  /\ printed = {}
  /\ calls = <<>>
  /\ enriched = None
  /\ files = {}

\* authenticate (lines 41-69): the session is created first (line 45), then
\* the token request is sent; it returns with the token
AuthenticateSucceeds ==
  /\ Len(sent) < MaxRequests
  /\ session' = "OAuth2Session"
  /\ sent' = Append(sent, "token")
  /\ token' = TRUE
  /\ thrown' = "none"
  /\ UNCHANGED run

\* authenticate when fetch_token (line 60) raises: the session of line 45
\* stays in self.session, without a token
AuthenticateFails ==
  /\ Len(sent) < MaxRequests
  /\ session' = "OAuth2Session"
  /\ sent' = Append(sent, "token_refused")
  /\ token' = FALSE
  /\ thrown' = "OAuth2Error"
  /\ UNCHANGED run

\* a fetch method: ValueError when self.session is None, else the request
\* is sent through the session; without a token the service refuses it and
\* raise_for_status raises
Fetch(request) ==
  /\ IF session = "None"
     THEN /\ thrown' = "ValueError"
          /\ UNCHANGED sent
     ELSE /\ sent' = Append(sent, request)
          /\ thrown' = IF token THEN "none" ELSE "HTTPError"
  /\ UNCHANGED <<session, token>>
  /\ UNCHANGED run

\* fetch_activities (lines 71-90)
FetchActivities ==
  /\ Len(sent) < MaxRequests
  /\ Fetch("activities")

\* fetch_activity_streams (lines 116-136)
FetchActivityStreams ==
  /\ Len(sent) < MaxRequests
  /\ Fetch("streams")

RetrieverNext ==
  \/ AuthenticateSucceeds
  \/ AuthenticateFails
  \/ FetchActivities
  \/ FetchActivityStreams

RetrieverSpec == RetrieverInit /\ [][RetrieverNext]_vars

----------------------------------------------------------------------------

(* Properties of alignment (interpolate_missing_data) *)

\* interpolate_missing_data has just returned: csv_data is the aligned table
Aligned ==
  /\ calls # <<>>
  /\ calls[Len(calls)] = "interpolate_missing_data"
  /\ err = "none"

\* the raw stream set handed to the processor
Raw == parse_to_csv(streams)

StrictlyIncreasing(t) == \A i \in 1..(Len(t) - 1) : Less(t[i], t[i + 1])

WholeSeconds(t) == \A i \in 1..Len(t) : t[i].d = 1

\* the absolute timestamp of raw entry j
RawTimestamp(j) == FAdd(Whole(json_data.start_date_local), streams["time"][j])

Rows == 1..NRows(csv_data)

RowTimestamp(r) == csv_data["time_datetime"][r]

NumericChannels == RawChannels \ {"time", "moving"}

\* the raw entries of channel c that hold a sample
Observed(c) == {j \in 1..Len(Raw[c]) : IsNum(Raw[c][j])}

\* C1: for a non-empty time channel of distinct, increasing whole-second
\* offsets the aligned table has max(time) - min(time) + 1 rows, in ascending
\* order, successive timestamps exactly one second apart
C1_RowGrid ==
  (/\ Aligned
   /\ Len(streams["time"]) > 0
   /\ StrictlyIncreasing(streams["time"])
   /\ WholeSeconds(streams["time"])) =>
    /\ NRows(csv_data) =
         FSub(ColMax(streams["time"]), ColMin(streams["time"])).n + 1
    /\ \A r \in Rows \ {1} :
         RowTimestamp(r) = FAdd(RowTimestamp(r - 1), Whole(1))

C1_Witness ==
  /\ Aligned
  /\ StrictlyIncreasing(streams["time"])
  /\ Len(streams["time"]) = 3
  /\ NRows(csv_data) = 5

\* C2, as claimed: every raw time entry has a row at start_time + offset with
\* is_original true, holding every sample the raw channels had at that entry
\* (refuted: a sample off the one-second grid has no row)
C2_OriginalRowsKept ==
  Aligned =>
    \A j \in 1..Len(streams["time"]) :
      \E r \in Rows :
        /\ RowTimestamp(r) = RawTimestamp(j)
        /\ csv_data["is_original"][r] = True
        /\ \A c \in RawChannels \ {"time"} :
             ~IsMissing(Raw[c][j]) => csv_data[RenamedColumn(c)][r] = Raw[c][j]

C2_Witness ==
  /\ Aligned
  /\ NRows(csv_data) > Len(streams["time"])
  /\ \E j \in 2..Len(streams["time"]) :
       /\ IsNum(streams["velocity"][j])
       /\ streams["velocity"][j] # streams["velocity"][1]
       /\ RawTimestamp(j) # FAdd(RawTimestamp(1), Whole(j - 1))

\* the value on the line through (t0, v0) and (t1, v1) at t
OnLine(t0, v0, t1, v1, t) ==
  FAdd(v0, FDiv(FMul(FSub(v1, v0), FSub(t, t0)), FSub(t1, t0)))

\* two successive observed samples of channel c
SuccessiveSamples(c) ==
  {jj \in Observed(c) \X Observed(c) :
     /\ jj[1] < jj[2]
     /\ \A j \in Observed(c) : ~(jj[1] < j /\ j < jj[2])}

\* C3, as claimed: between two successive observed samples of a numeric
\* channel every grid second holds the value on the line through them
\* (refuted: the line skips the samples that lie off the one-second grid)
C3_LinearBetweenSamples ==
  Aligned =>
    \A c \in NumericChannels : \A jj \in SuccessiveSamples(c) : \A r \in Rows :
      (Less(RawTimestamp(jj[1]), RowTimestamp(r))
         /\ Less(RowTimestamp(r), RawTimestamp(jj[2]))) =>
        csv_data[RenamedColumn(c)][r] =
          OnLine(RawTimestamp(jj[1]), Raw[c][jj[1]],
                 RawTimestamp(jj[2]), Raw[c][jj[2]], RowTimestamp(r))

C3_Witness ==
  /\ Aligned
  /\ \E jj \in SuccessiveSamples("velocity") : \E r \in Rows :
       /\ Raw["velocity"][jj[1]] # Raw["velocity"][jj[2]]
       /\ jj[2] = jj[1] + 2
       /\ Less(RawTimestamp(jj[1]), RowTimestamp(r))
       /\ Less(RowTimestamp(r), RawTimestamp(jj[2]))
       /\ csv_data["is_original"][r] = NaN
       /\ csv_data["velocity_mps"][r].d = 3

\* C4, as claimed: a row before the first or after the last observed sample
\* of a numeric channel is missing (refuted: pandas' linear interpolation
\* repeats the last observed value down the trailing gap)
C4_NoExtrapolation ==
  Aligned =>
    \A c \in NumericChannels : \A r \in Rows :
      (\/ \A j \in Observed(c) : Less(RowTimestamp(r), RawTimestamp(j))
       \/ \A j \in Observed(c) : Less(RawTimestamp(j), RowTimestamp(r))) =>
        IsMissing(csv_data[RenamedColumn(c)][r])

\* C5, as claimed: a row that matches no raw time entry has is_original
\* False (refuted: reindex leaves NaN there and nothing replaces it)
C5_InterpolatedRowsFalse ==
  Aligned =>
    \A r \in Rows :
      (\A j \in 1..Len(streams["time"]) : RawTimestamp(j) # RowTimestamp(r)) =>
        csv_data["is_original"][r] = False

\* the scenario of C6: time = [0, 1, 3], velocity = [2.0, missing, 4.0]
Scenario6 ==
  /\ streams["time"] = <<Whole(0), Whole(1), Whole(3)>>
  /\ streams["velocity"] = <<Whole(2), None, Whole(4)>>

\* C6, as claimed: velocity = [2, 2, 3, 4], is_original = [T, F, F, T]
C6_AsClaimed ==
  (Aligned /\ Scenario6) =>
    /\ NRows(csv_data) = 4
    /\ csv_data["velocity_mps"] = <<Whole(2), Whole(2), Whole(3), Whole(4)>>
    /\ csv_data["is_original"] = <<True, False, False, True>>

\* C6, amended: 4 rows at t = 0, 1, 2, 3; the missing sample at t = 1 and the
\* new row at t = 2 lie on the line from (0, 2) to (3, 4), so velocity =
\* [2, 8/3, 10/3, 4]; is_original is true at t = 0, 1, 3 and not at t = 2
C6_Scenario ==
  (Aligned /\ Scenario6) =>
    /\ NRows(csv_data) = 4
    /\ \A r \in Rows : RowTimestamp(r) = FAdd(RawTimestamp(1), Whole(r - 1))
    /\ csv_data["velocity_mps"] = <<Whole(2), Num(8, 3), Num(10, 3), Whole(4)>>
    /\ \A r \in Rows : (csv_data["is_original"][r] = True) <=> (r # 3)

C6_Witness == Aligned /\ Scenario6 /\ pc = "minute_to_second"

----------------------------------------------------------------------------
(* Properties of the drivers *)

Terminal == pc \in {"done", "raised"}

\* C7: a run whose time stream is empty is abandoned with a diagnostic before
\* any table is built: no alignment, no feature derivation, no streams file
C7_EmptyStreamAbandoned ==
  Len(streams["time"]) = 0 =>
    /\ \A i \in 1..Len(calls) :
         calls[i] \notin {"interpolate_missing_data", "_minute_to_second",
                          "smooth_data", "feature_engineering", "save_to_csv"}
    /\ "streams.csv" \notin files
    /\ csv_data \in {None, False}
    /\ Terminal => "no_time_stream" \in printed
    /\ (Terminal /\ driver # "time_data") => err = "ValueError"

C7_Witness ==
  /\ Len(streams["time"]) = 0
  /\ driver = "main"
  /\ pc = "raised"

----------------------------------------------------------------------------
(* Properties of feature derivation (feature_engineering) *)

\* feature_engineering has just returned: csv_data holds every feature
Derived ==
  /\ calls # <<>>
  /\ calls[Len(calls)] = "feature_engineering"
  /\ err = "none"

\* the ratio feature_engineering computes at row r
StrideRatio(r) == FDiv(csv_data[vel][r], csv_data[cad][r])

\* C8, as claimed: stride_length_m is never +inf or -inf; a row whose ratio
\* is infinite of either sign holds 0 (refuted: only +inf is replaced)
C8_NoInfiniteStride ==
  Derived =>
    \A r \in Rows :
      /\ csv_data["stride_length_m"][r] \notin {PosInf, NegInf}
      /\ StrideRatio(r) \in {PosInf, NegInf} =>
           csv_data["stride_length_m"][r] = Whole(0)

Bearing == WithBearing(csv_data)["athletedir_degree"]

HasCoordinates(r) == IsNum(csv_data[lat][r]) /\ IsNum(csv_data[lon][r])

\* C10: the first row has no bearing; every later row whose coordinates and
\* whose predecessor's coordinates are present has a bearing in [0, 360)
C10_BearingRange ==
  Derived =>
    /\ Bearing[1] = NaN
    /\ csv_data["relative_winddir_degree"][1] = NaN
    /\ \A r \in Rows \ {1} :
         /\ (HasCoordinates(r - 1) /\ HasCoordinates(r)) =>
              /\ IsNum(Bearing[r])
              /\ ~Less(Bearing[r], Whole(0))
              /\ Less(Bearing[r], Whole(360))
         /\ csv_data["relative_winddir_degree"][r] =
              FMod(FSub(Whole(json_data.weather.winddir), Bearing[r]), 360)

C10_Witness ==
  /\ Derived
  /\ NRows(csv_data) >= 3
  /\ Bearing[2] = Whole(270)
  /\ Bearing[3] = Whole(180)

----------------------------------------------------------------------------
(* Properties of the wind decomposition *)

\* the run's wind speed in m/s
WindSpeed ==
  FDiv(FMul(Whole(json_data.weather.windspeed), Whole(1000)), Whole(3600))

Square(x) == FMul(x, x)

WindMagnitudeAt(r) ==
  FAdd(Square(csv_data["headwind_mps"][r]), Square(csv_data["crosswind_mps"][r]))

\* C11, as claimed: at every row, the first included, headwind squared plus
\* crosswind squared is the square of the wind speed in m/s
C11_AsClaimed ==
  Derived => \A r \in Rows : WindMagnitudeAt(r) = Square(WindSpeed)

\* C11, amended: the identity holds at every row that has a bearing; at the
\* first row, and at every row whose bearing is missing, headwind and
\* crosswind are both missing
C11_WindMagnitude ==
  Derived =>
    \A r \in Rows :
      IF IsNum(Bearing[r])
      THEN WindMagnitudeAt(r) = Square(WindSpeed)
      ELSE /\ csv_data["headwind_mps"][r] = NaN
           /\ csv_data["crosswind_mps"][r] = NaN

C11_Witness ==
  /\ Derived
  /\ json_data.weather.windspeed = 18
  /\ Bearing[1] = NaN
  /\ \E r \in Rows : csv_data["headwind_mps"][r] = Whole(-5)
  /\ \E r \in Rows : csv_data["crosswind_mps"][r] = Whole(5)

\* the rows the bearing loop gave a bearing
WithBearingRows == {r \in Rows : IsNum(Bearing[r])}

Relative(r) == csv_data["relative_winddir_degree"][r]

\* C12: at a row with a bearing the relative wind direction is the angle of
\* [0, 360) congruent to wind direction - bearing, headwind is the wind speed
\* times its cosine and crosswind the wind speed times its sine; wind from 90
\* on bearing 0 gives relative direction 90, headwind 0 and the full wind
\* speed as crosswind
C12_WindDecomposition ==
  Derived =>
    \A r \in WithBearingRows :
      /\ IsNum(Relative(r))
      /\ ~Less(Relative(r), Whole(0))
      /\ Less(Relative(r), Whole(360))
      /\ \E q \in -1..1 :
           FAdd(Relative(r), Whole(360 * q)) =
             FSub(Whole(json_data.weather.winddir), Bearing[r])
      /\ csv_data["headwind_mps"][r] =
           FMul(WindSpeed, Whole(CosDeg(Relative(r).n)))
      /\ csv_data["crosswind_mps"][r] =
           FMul(WindSpeed, Whole(SinDeg(Relative(r).n)))
      /\ (json_data.weather.winddir = 90 /\ Bearing[r] = Whole(0)) =>
           /\ Relative(r) = Whole(90)
           /\ csv_data["headwind_mps"][r] = Whole(0)
           /\ csv_data["crosswind_mps"][r] = WindSpeed

C12_Witness ==
  /\ Derived
  /\ \E r \in WithBearingRows :
       /\ json_data.weather.winddir = 90
       /\ Bearing[r] = Whole(0)
       /\ csv_data["crosswind_mps"][r] = Whole(10)
  /\ \E r \in WithBearingRows :
       /\ Less(Whole(json_data.weather.winddir), Bearing[r])
       /\ Relative(r) = Whole(180)

----------------------------------------------------------------------------
(* Properties of the derive stages as a whole *)

\* the second run of the derive stages is under way or over
SecondRun == enriched # None

\* the second run has gone through its last stage
DerivedTwice == SecondRun /\ pc \in {"save_to_json", "save_to_csv", "done"}

\* C13: the derive stages run a second time on the table they produced end
\* without an error and with the same columns holding the same values
C13_Idempotent ==
  SecondRun =>
    /\ err = "none"
    /\ DerivedTwice => csv_data = enriched

C13_Witness ==
  /\ DerivedTwice
  /\ NRows(csv_data) >= 3
  /\ "smooth_crosswind_mps" \in DOMAIN enriched
  /\ enriched[vel][2] # enriched["velocity_mps"][2]
  /\ enriched["stride_length_m"][3] # enriched["stride_length_m"][2]

\* the positions of calls that hold method
CallsOf(method) == {i \in 1..Len(calls) : calls[i] = method}

\* C14, as claimed: on every path that derives features alignment, then unit
\* normalization, then the first smoothing pass have completed when
\* feature_engineering starts, and a feature_engineering that returns is
\* followed by the smoothing of headwind and crosswind (refuted:
\* RunRetriever.main calls feature_engineering right after alignment)
C14_StageOrder ==
  /\ \A i \in CallsOf("feature_engineering") :
       \E a \in CallsOf("interpolate_missing_data") :
         \E b \in CallsOf("_minute_to_second") :
           \E c \in CallsOf("smooth_data") : a < b /\ b < c /\ c < i
  /\ \A i \in CallsOf("save_to_json") :
       \E e \in CallsOf("feature_engineering") :
         \E s \in CallsOf("smooth_data") : e < s /\ s < i

\* the driver is about to run a derive stage
DeriveStage ==
  pc \in {"minute_to_second", "smooth_1", "feature_engineering", "smooth_2"}

\* C15: a derive stage (unit normalization, a smoothing pass,
\* feature_engineering), whether it returns or raises, leaves the number and
\* order of the rows, every row's timestamp and every row's is_original as
\* they were
C15_RowsKept ==
  [][DeriveStage =>
       /\ \A c \in DOMAIN csv_data' : Len(csv_data'[c]) = NRows(csv_data)
       /\ csv_data'["time_datetime"] = csv_data["time_datetime"]
       /\ csv_data'["is_original"] = csv_data["is_original"]]_vars

C15_Witness ==
  /\ driver = "process"
  /\ pc = "save_to_json"
  /\ "smooth_crosswind_mps" \in DOMAIN csv_data
  /\ NRows(csv_data) = MaxTime + 1
  /\ \A r \in Rows : RowTimestamp(r) = FAdd(RawTimestamp(1), Whole(r - 1))
  /\ csv_data["is_original"][1] = True
  /\ csv_data["is_original"][2] = NaN

\* a value the run context lacks: the key is not there, or it holds null
Lacking(k) == k \in {"absent", "none"}

MissingContext ==
  \/ Lacking(json_data.weather.k)
  \/ Lacking(json_data.max_speed.k)
  \/ Lacking(json_data.max_heartrate.k)

\* C16: with weather, max_speed or max_heartrate lacking from the run context
\* the derivation never gets past feature_engineering: the run ends in an
\* error, no file is written, no pace-efficiency column is made, and no
\* headwind or crosswind column without a weather observation
C16_MissingContextFails ==
  MissingContext =>
    /\ pc \notin {"smooth_2", "save_to_json", "save_to_csv", "done"}
    /\ files = {}
    /\ pc = "raised" => err # "none"
    /\ (pc = "raised" /\ NRows(csv_data) >= 2) => err \in {"KeyError", "TypeError"}
    /\ csv_data \notin {None, False} =>
         /\ {"pace_efficiency", "smooth_pace_efficiency"} \cap DOMAIN csv_data = {}
         /\ Lacking(json_data.weather.k) =>
              {"headwind_mps", "crosswind_mps"} \cap DOMAIN csv_data = {}

C16_Witness ==
  /\ json_data.weather.k = "obs"
  /\ json_data.max_speed = Whole(5)
  /\ json_data.max_heartrate = None
  /\ pc = "raised"
  /\ err = "TypeError"
  /\ calls[Len(calls)] = "feature_engineering"
  /\ "headwind_mps" \in DOMAIN csv_data

----------------------------------------------------------------------------
(* Properties of the final table *)

\* process has returned: csv_data is the final enriched table
Enriched ==
  /\ driver = "process"
  /\ pc \in {"save_to_json", "save_to_csv", "done"}

\* C17, as claimed: the final table has no intermediate wind column: no
\* latitude or longitude delta, no wind direction, no wind speed, no relative
\* wind direction (refuted: relative_winddir_degree is not in the list that
\* line 153 drops)
C17_NoIntermediateWindColumns ==
  Enriched =>
    DOMAIN csv_data \cap
      {"delta_latitude", "delta_longitude", "winddir_degree",
       "windspeed_mps", "relative_winddir_degree"} = {}

\* the columns the stages name: the raw channels, the per-second channels,
\* the smoothed channels and the derived features
RawColumns == {RenamedColumn(c) : c \in RawChannels}

SmoothedColumns == {SmoothName(f) : f \in Pass1Features \cup Pass2Features}

DerivedColumns ==
  {"heartrate_bps", "cadence_rps", "headwind_mps", "crosswind_mps",
   "stride_length_m", "diff_altitude_mps", "diff_velocity_mps2",
   "diff_heartrate_bps2", "pace_efficiency", "smooth_pace_efficiency",
   "diff_pace_efficiency"}

\* C18, as claimed: the final table holds every raw, smoothed and derived
\* column, the bearing of travel among them (refuted: athletedir_degree is
\* dropped at line 153; every other named column is there)
C18_AllNamedColumns ==
  Enriched =>
    RawColumns \cup SmoothedColumns \cup DerivedColumns
      \cup {"athletedir_degree"} \subseteq DOMAIN csv_data

----------------------------------------------------------------------------
(* Properties of smoothing (smooth_data) *)

\* the rows of the trailing window of row i that hold a value of column c
Present(c, i) ==
  {j \in Rows : i - WindowSize < j /\ j <= i /\ ~IsMissing(csv_data[c][j])}

RECURSIVE SumOf(_, _)
SumOf(c, S) ==
  IF S = {} THEN Whole(0)
  ELSE LET j == CHOOSE j \in S : TRUE
       IN FAdd(csv_data[c][j], SumOf(c, S \ {j}))

MeanOf(c, S) == FDiv(SumOf(c, S), Whole(Cardinality(S)))

\* smooth_data has just returned
Smoothed ==
  /\ calls # <<>>
  /\ calls[Len(calls)] = "smooth_data"
  /\ err = "none"

SmoothedFeatures ==
  {f \in Pass1Features \cup Pass2Features : SmoothName(f) \in DOMAIN csv_data}

\* C19: a smoothed value is the mean of the values its source holds in the
\* trailing window of WindowSize rows, cut short at the first row; it is
\* missing exactly when the source is missing all over that window
C19_TrailingMean ==
  Smoothed =>
    \A f \in SmoothedFeatures : \A i \in Rows :
      csv_data[SmoothName(f)][i] =
        IF Present(f, i) = {} THEN NaN ELSE MeanOf(f, Present(f, i))

C19_Witness ==
  /\ Enriched
  /\ NRows(csv_data) = WindowSize + 2
  /\ csv_data["velocity_mps"][2] = NaN
  /\ csv_data[vel][2] = NaN
  /\ csv_data["velocity_mps"][3] = Whole(2)
  /\ csv_data[vel][3] = Whole(2)
  /\ csv_data[vel][WindowSize + 1] = Num(11, 4)
  /\ csv_data[vel][WindowSize + 2] = Whole(3)
  /\ csv_data["smooth_headwind_mps"][1] = NaN
  /\ IsNum(csv_data["smooth_headwind_mps"][2])

----------------------------------------------------------------------------
(* Properties of pace efficiency *)

\* score = (velocity / max_speed) * (1 - (bps - resting / 60) / (max_hr / 60))
\* with the fractions cleared:
\*   score * max_speed * max_hr = velocity * (max_hr - 60 * bps + resting)
IsPaceEfficiency(score, velocity, bps) ==
  IF IsNum(velocity) /\ IsNum(bps)
  THEN /\ IsNum(score)
       /\ FMul(score, FMul(json_data.max_speed, json_data.max_heartrate)) =
            FMul(velocity,
                 FAdd(FSub(json_data.max_heartrate,
                           FMul(Whole(SecondsPerMinute), bps)),
                      Whole(RestingHeartRate)))
  ELSE score = NaN

\* C20: at every row pace_efficiency is the score of the raw velocity and
\* the raw heart rate per second (heartrate_bpm / 60), smooth_pace_efficiency
\* the score of the smoothed velocity and the smoothed heart rate per
\* second; a score below 0 is kept as it is
C20_PaceEfficiency ==
  Derived =>
    \A r \in Rows :
      /\ IsPaceEfficiency(csv_data["pace_efficiency"][r],
                          csv_data["velocity_mps"][r],
                          FDiv(csv_data["heartrate_bpm"][r],
                               Whole(SecondsPerMinute)))
      /\ IsPaceEfficiency(csv_data["smooth_pace_efficiency"][r],
                          csv_data[vel][r], csv_data[hr][r])

C20_Witness ==
  /\ Enriched
  /\ \E r \in Rows :
       /\ csv_data["pace_efficiency"][r] = Num(-2, 3)
       /\ csv_data["smooth_pace_efficiency"][r] = Whole(0)
  /\ \E r \in Rows : csv_data["pace_efficiency"][r] = Num(2, 3)

----------------------------------------------------------------------------
(* Properties of the per-run loop of RunRetriever.main *)

----------------------------------------------------------------------------
(* Properties of alignment on irregular time channels *)

\* interpolate_missing_data has been called and has returned or raised
AlignmentOver ==
  /\ calls # <<>>
  /\ calls[Len(calls)] = "interpolate_missing_data"

NonDecreasing(t) == \A i \in 1..(Len(t) - 1) : ~Less(t[i + 1], t[i])

\* C22, as claimed: for a non-decreasing time channel with a repeated value
\* alignment returns a table, its timestamps one second apart from min(time)
\* to max(time), none twice (refuted: reindex raises ValueError on an index
\* with duplicate labels)
C22_RepeatedTimeAligned ==
  (/\ AlignmentOver
   /\ NonDecreasing(streams["time"])
   /\ HasDuplicates(streams["time"])) =>
    /\ err = "none"
    /\ RowTimestamp(1) = FAdd(Whole(json_data.start_date_local),
                              ColMin(streams["time"]))
    /\ RowTimestamp(NRows(csv_data)) =
         FAdd(Whole(json_data.start_date_local), ColMax(streams["time"]))
    /\ \A r \in Rows \ {1} :
         RowTimestamp(r) = FAdd(RowTimestamp(r - 1), Whole(1))

----------------------------------------------------------------------------
(* Properties of StravaDataRetriever *)

\* parse_to_csv has just returned the channel lists of a run
Parsed == pc = "construct" /\ csv_data # False

\* the list parse_to_csv builds channel c from
SourceList(c) ==
  CASE c = "latitude" -> _extract_coordinates(streams["latlng"]).lat
    [] c = "longitude" -> _extract_coordinates(streams["latlng"]).lng
    [] OTHER -> streams[c]

\* C23, as claimed: whatever the lengths of the streams, every channel
\* parse_to_csv returns has len(time) entries, its own samples first and
\* missing markers after them (refuted: a stream longer than time is
\* returned whole)
C23_PaddedToTimeLength ==
  Parsed =>
    \A c \in RawChannels \ {"time"} :
      /\ Len(csv_data[c]) = Len(streams["time"])
      /\ \A i \in 1..Len(csv_data[c]) :
           csv_data[c][i] =
             IF i <= Len(SourceList(c)) THEN SourceList(c)[i] ELSE None

\* an authenticate call had obtained a token before request i was sent
Authenticated(i) == \E j \in 1..(i - 1) : sent[j] = "token"

\* C24, as claimed: an activities or streams request is sent only after an
\* authenticate call that obtained the token; a fetch before that raises
\* ValueError and sends nothing (refuted: authenticate stores the session
\* before it fetches the token, so after a failed authenticate the fetch
\* methods find a session and send their request)
C24_NoRequestBeforeToken ==
  /\ \A i \in 1..Len(sent) :
       sent[i] \in {"activities", "streams"} => Authenticated(i)
  /\ (thrown \notin {"none", "OAuth2Error"} /\ ~Authenticated(Len(sent) + 1)) =>
       thrown = "ValueError"

----------------------------------------------------------------------------
(* Properties of feature derivation on degenerate rows *)

\* feature_engineering has been called and has returned or raised
FeaturesOver ==
  /\ calls # <<>>
  /\ calls[Len(calls)] = "feature_engineering"

FirstDifferences ==
  {"diff_altitude_mps", "diff_pace_efficiency", "diff_heartrate_bps2",
   "diff_velocity_mps2"}

\* C25, as claimed: on an aligned table of one row feature_engineering
\* returns without an error, and the row has headwind, crosswind and every
\* first difference missing (refuted: the bearing loop never runs, the
\* athletedir_degree column does not exist and line 141 raises KeyError)
C25_OneRowDerives ==
  (driver = "process" /\ FeaturesOver /\ NRows(csv_data) = 1) =>
    /\ err = "none"
    /\ \A c \in {"headwind_mps", "crosswind_mps"} \cup FirstDifferences :
         csv_data[c] = <<NaN>>

\* C26: a row whose smoothed cadence and smoothed velocity are both 0 has a
\* missing stride_length_m, not 0; stride_length_m differs from the ratio
\* only where the ratio is infinite
C26_ZeroOverZeroMissing ==
  Derived =>
    \A r \in Rows :
      /\ (csv_data[cad][r] = Whole(0) /\ csv_data[vel][r] = Whole(0)) =>
           csv_data["stride_length_m"][r] = NaN
      /\ csv_data["stride_length_m"][r] # StrideRatio(r) =>
           /\ StrideRatio(r) = PosInf
           /\ csv_data["stride_length_m"][r] = Whole(0)

C26_Witness ==
  /\ Derived
  /\ \E r \in Rows :
       /\ csv_data[cad][r] = Whole(0)
       /\ csv_data[vel][r] = Whole(0)
       /\ csv_data["stride_length_m"][r] = NaN
  /\ \E r \in Rows :
       /\ StrideRatio(r) = PosInf
       /\ csv_data["stride_length_m"][r] = Whole(0)

----------------------------------------------------------------------------
(* Properties of a failed feature derivation *)

\* feature_engineering is about to fail for want of max_speed or
\* max_heartrate, and of nothing else
PaceFailure ==
  /\ driver = "process"
  /\ pc = "feature_engineering"
  /\ NRows(csv_data) >= 2
  /\ WeatherRaises(json_data) = "none"
  /\ PaceRaises(json_data) # "none"

\* the columns the sections before the pace section leave in the table
BeforePaceColumns ==
  {"relative_winddir_degree", "headwind_mps", "crosswind_mps",
   "stride_length_m", "diff_altitude_mps"}

\* C27, as claimed: a feature_engineering that fails for want of max_speed
\* or max_heartrate leaves the table exactly as it was before the call
C27_AsClaimed ==
  [][PaceFailure => csv_data' = csv_data]_vars

\* C27, amended: the failed call leaves every column the table had as it
\* was and adds the columns of the sections before the pace section:
\* relative_winddir_degree, headwind_mps, crosswind_mps, stride_length_m
\* and diff_altitude_mps; no pace-efficiency column is added
C27_PartialTableKept ==
  [][PaceFailure =>
       /\ err' = PaceRaises(json_data)
       /\ DOMAIN csv_data' = DOMAIN csv_data \cup BeforePaceColumns
       /\ BeforePaceColumns \cap DOMAIN csv_data = {}
       /\ \A c \in DOMAIN csv_data : csv_data'[c] = csv_data[c]
       /\ \A c \in {"headwind_mps", "crosswind_mps", "stride_length_m"} :
            IsNum(csv_data'[c][2])]_vars

C27_Witness ==
  /\ pc = "raised"
  /\ err = "KeyError"
  /\ json_data.weather.k = "obs"
  /\ json_data.max_speed = Absent
  /\ NRows(csv_data) >= 2
  /\ BeforePaceColumns \subseteq DOMAIN csv_data
  /\ "smooth_pace_efficiency" \notin DOMAIN csv_data

----------------------------------------------------------------------------
(* Properties of the bearing of a runner who stands still *)

\* row r holds the coordinates of the row before it
NoMovement(r) ==
  /\ HasCoordinates(r)
  /\ csv_data[lat][r] = csv_data[lat][r - 1]
  /\ csv_data[lon][r] = csv_data[lon][r - 1]

----------------------------------------------------------------------------
(* Sub-second samples *)

\* the raw entries that do not lie a whole number of seconds after min(time)
OffGrid ==
  {j \in 1..Len(streams["time"]) :
     FSub(streams["time"][j], ColMin(streams["time"])).d # 1}

\* the streams with another value v observed at every off-grid entry
Reobserved(v) ==
  [c \in DOMAIN streams |->
     IF c \in {"time", "moving", "latlng"} THEN streams[c]
     ELSE [j \in 1..Len(streams[c]) |->
             IF j \in OffGrid THEN v ELSE streams[c][j]]]

\* the aligned table of a stream set
AlignedFrom(strm) ==
  interpolate_missing_data(rename_columns(parse_to_csv(strm)), json_data)

\* C29: a raw sample that does not lie a whole number of seconds after
\* min(time) has no row in the aligned table, and the table is the same
\* whatever values were observed at that sample
C29_SubSecondDiscarded ==
  Aligned =>
    /\ \A j \in OffGrid : \A r \in Rows : RowTimestamp(r) # RawTimestamp(j)
    /\ \A v \in Cells({2, 3, 4}) : csv_data = AlignedFrom(Reobserved(v))

\* time = [0, 0.5, 2] with velocity = [2, 4, 2]: three rows, all at 2
C29_Witness ==
  /\ Aligned
  /\ OffGrid = {2}
  /\ streams["velocity"] = <<Whole(2), Whole(4), Whole(2)>>
  /\ NRows(csv_data) = 3
  /\ csv_data["velocity_mps"] = <<Whole(2), Whole(2), Whole(2)>>

====
